---- MODULE Spec2Model ----
(***************************************************************************)
(* A model of the retry orchestrator of ai-code-agent: the LangGraph       *)
(* workflow built in src/agent/graph.py over the node functions of         *)
(* src/agent/nodes.py, as driven by run_batch_job (src/agent/runner.py).   *)
(*                                                                         *)
(* One session is one invocation of the compiled graph.  LangGraph runs a  *)
(* graph in supersteps: the nodes scheduled for a step all read the same   *)
(* state, each returns a dict of writes, the writes are applied, and the   *)
(* outgoing edges of the nodes that ran (evaluated on the updated state)   *)
(* schedule the next step.  `active` is the set of scheduled nodes.        *)
(***************************************************************************)
EXTENDS Integers, Sequences, FiniteSets, TLC

(***************************************************************************)
(* Bounds of the model.                                                    *)
(***************************************************************************)
\* max_iterations ranges over 1..MaxCeiling (config.py allows 1..10)
MaxCeiling == 3

\* the number of lines of an input file
MaxLines == 3

\* the number of questions of an input file
MaxQuestions == 2

\* the number of background jobs that run at the same time
MaxJobs == 2

\* the admission limit the number of live containers is held against
AdmissionLimit == 2

(***************************************************************************)
(* Program constants.                                                      *)
(***************************************************************************)
\* app.ainvoke(initial_state) is called without a config, so the graph runs
\* under LangGraph's default recursion limit of 25 supersteps
RecursionLimit == 25

\* cpu_period of every container, in microseconds
CpuPeriod == 100000

(***************************************************************************)
(* Values the collaborators can return.                                    *)
(***************************************************************************)
\* candidate programs extracted from a synthesis response ("" is possible:
\* an empty response is stripped to the empty string)
Codes == {"", "codeA", "codeB"}

\* a synthesis call either returns a response from which code is extracted
\* or raises (the LLM call or _extract_code_from_response raises)
SynthResponses == [raised : {FALSE}, code : Codes] \cup {[raised |-> TRUE, code |-> ""]}

\* critique texts, as sequences of characters ("Spaß" has no PASS in any
\* letter case, but str.upper() turns it into "SPASS")
ReviewTexts ==
    { <<"P", "A", "S", "S">>,
      <<"p", "a", "s", "s">>,
      <<"n", "o", " ", "P", "a", "s", "s", ".">>,
      <<"S", "p", "a", "ß">>,
      <<"f", "i", "x">>,
      <<>> }

\* what CodeExecutor().execute_code can hand back to execute_code_node:
\* the engine cannot be constructed (CodeExecutor() raises RuntimeError),
\* the call itself raises, or a result dict comes back
ExecResponses ==
    { [raised |-> TRUE,  at |-> "init",    success |-> FALSE, output |-> "",
       error |-> "Docker is not available"],
      [raised |-> TRUE,  at |-> "execute", success |-> FALSE, output |-> "",
       error |-> "execute_code raised"],
      [raised |-> FALSE, at |-> "none",    success |-> TRUE,  output |-> "1\n2\n3",
       error |-> ""],
      [raised |-> FALSE, at |-> "none",    success |-> FALSE, output |-> "1",
       error |-> "Traceback"],
      [raised |-> FALSE, at |-> "none",    success |-> FALSE, output |-> "",
       error |-> "Execution timeout"] }

\* no engine call has been made yet
NoExec == [raised |-> FALSE, at |-> "none", success |-> FALSE, output |-> "", error |-> "not run"]

\* the diagnostic lists validate_code_node can collect from a tool battery
ErrorLists ==
    { <<>>,
      <<"flake8: E303">>,
      <<"pylint: W0101", "bandit: issue">> }

Nodes == {"generate_code", "review_code", "execute_code", "validate_code", "generate_document"}

VARIABLES
    state,          \* the CodeAgentState dict of the running session
    active,         \* nodes scheduled for the next superstep ({} = END reached)
    steps,          \* supersteps executed so far
    session_error,  \* exception that escaped app.ainvoke, or "none"
    synth_calls,    \* number of self.llm.invoke calls made by generate_code_node
    exec_calls,     \* number of execute_code_node runs
    best_seen,      \* TRUE once a synthesis call has produced non-empty code
    critique_rejected, \* TRUE once review_outcome has answered "retry"
    stage,          \* how far the candidate has come: generated, reviewed, ...
    staged_code,    \* the candidate the stage is about
    prompt,         \* feedback sections of the prompt of the last synthesis call
    last_exec       \* what the engine answered to the last execute_code_node

\* the variables of one session
svars == <<state, active, steps, session_error, synth_calls, exec_calls, best_seen,
           critique_rejected, stage, staged_code, prompt, last_exec>>

VARIABLES
    ex_pc,          \* where one execute_code call stands ("idle": no call)
    ex_language,    \* the language argument as passed
    ex_lang,        \* language.lower()
    ex_file,        \* the scratch file on disk: none, present, deleted
    ex_temp_file,   \* TRUE once temp_file is bound (the inner try is entered)
    ex_container,   \* the container of the call: none, running, exited, removed
    ex_exit,        \* StatusCode returned by container.wait
    ex_path,        \* the exit path the call has taken
    ex_result,      \* the dict execute_code returns
    val_verdict,    \* verdict of validate for the same language
    val_containers  \* tool containers launched by that validation

\* the variables of one engine call
evars == <<ex_pc, ex_language, ex_lang, ex_file, ex_temp_file, ex_container, ex_exit,
           ex_path, ex_result, val_verdict, val_containers>>

VARIABLES
    v_pc,        \* where one validate_code_node call stands ("idle": no call)
    v_lang,      \* state["target_language"]
    v_queue,     \* the tools of the battery still to run
    v_details,   \* the outputs collected so far, in tool order
    v_cont,      \* the container of the tool being run
    v_ran,       \* the tools whose run_tool was called
    v_threw,     \* the tools whose run_tool raised
    v_read,      \* what the last container.logs call saw
    v_errors,    \* the errors list
    v_verdict    \* the verdict the node returns

\* the variables of one validation call
vvars == <<v_pc, v_lang, v_queue, v_details, v_cont, v_ran, v_threw, v_read, v_errors,
           v_verdict>>

VARIABLES
    p_job,       \* the background jobs: where each stands, its language, its tools to run
    p_pool,      \* the containers that are live
    p_cpu        \* settings.docker_cpu_limit

\* the variables of the container pool
pvars == <<p_job, p_pool, p_cpu>>

VARIABLES
    b_pc,         \* where run_batch_job stands ("idle": no call)
    b_questions,  \* the questions the parser returned
    b_index,      \* the position of the loop over the questions
    b_finals,     \* the final state of each session that returned, in the order run
    b_results,    \* results_for_doc
    b_handed      \* the list handed to generate_assignment_docx

\* the variables of the batch driver
bvars == <<b_pc, b_questions, b_index, b_finals, b_results, b_handed>>

VARIABLES
    r_pc,        \* where one parse_file call stands ("idle": no call)
    r_exists,    \* whether the input file exists
    r_content,   \* the text of the input file
    r_result     \* what parse_file returned or raised

\* the variables of one parse_file call
rvars == <<r_pc, r_exists, r_content, r_result>>

VARIABLES
    j_rows,      \* the committed rows of the jobs table, by job id
    j_obj,       \* the Job object of each background task, with its pending changes
    j_pc,        \* where the background task of each job stands
    j_download   \* the answer to the last download request

\* the variables of the job store
jvars == <<j_rows, j_obj, j_pc, j_download>>

\* the job ids uuid4 hands out, and the users
JobIds == 1..MaxJobs
Users == {1, 2}

\* the variables outside one session, one engine call and one validation call
later_vars == <<pvars, bvars, rvars, jvars>>

vars == <<svars, evars, vvars, later_vars>>

\* what a session step, an engine step, a validation step leave alone
beside_session == <<evars, vvars, later_vars>>
beside_engine == <<svars, vvars, later_vars>>
beside_validation == <<svars, evars, later_vars>>
\* what a step of the container pool leaves alone
beside_pool == <<svars, evars, vvars, bvars, rvars, jvars>>
\* what a step of the batch driver leaves alone
beside_batch == <<svars, evars, vvars, pvars, rvars, jvars>>
\* what a step of the parser leaves alone
beside_parse == <<svars, evars, vvars, pvars, bvars, jvars>>
\* what a step of the job store leaves alone
beside_jobs == <<svars, evars, vvars, pvars, bvars, rvars>>

(***************************************************************************)
(* String helpers.                                                         *)
(***************************************************************************)
\* str.upper() of one character; Python maps "ß" to the two letters "SS"
UpperChar(c) ==
    CASE c = "p" -> <<"P">>
      [] c = "a" -> <<"A">>
      [] c = "s" -> <<"S">>
      [] c = "n" -> <<"N">>
      [] c = "o" -> <<"O">>
      [] c = "f" -> <<"F">>
      [] c = "i" -> <<"I">>
      [] c = "x" -> <<"X">>
      [] c = "ß" -> <<"S", "S">>
      [] OTHER   -> <<c>>

\* str.upper() of a text
RECURSIVE Upper(_)
Upper(s) == IF s = <<>> THEN <<>> ELSE UpperChar(Head(s)) \o Upper(Tail(s))

\* sub in s
Contains(s, sub) ==
    \E i \in 1..(Len(s) - Len(sub) + 1) : SubSeq(s, i, i + Len(sub) - 1) = sub

\* "\n".join(errors)
RECURSIVE JoinLines(_)
JoinLines(errors) ==
    IF errors = <<>> THEN ""
    ELSE IF Len(errors) = 1 THEN errors[1]
    ELSE errors[1] \o "\n" \o JoinLines(Tail(errors))

(***************************************************************************)
(* The session state and the node functions.  A node returns the dict of   *)
(* writes it hands back to LangGraph; ApplyWrites stores them.             *)
(***************************************************************************)
\* create_initial_state (src/agent/state.py): the keys the nodes and the
\* routing functions read and write, before the first synthesis
create_initial_state(ceiling) ==
    [ generated_code     |-> "",
      error_message      |-> "",
      iteration_count    |-> 0,
      max_iterations     |-> ceiling,
      llm_calls_made     |-> 0,
      status             |-> "pending",
      review_feedback    |-> <<>>,
      execution_output   |-> "",
      execution_error    |-> "",
      execution_success  |-> FALSE,
      validation_passed  |-> FALSE,
      validation_errors  |-> <<>>,
      current_feedback   |-> "",
      feedback_history   |-> <<>>,
      final_success      |-> FALSE ]

\* the state after LangGraph has stored a node's writes
ApplyWrites(st, w) ==
    [k \in DOMAIN st |-> IF k \in DOMAIN w THEN w[k] ELSE st[k]]

\* the prompt with the digest added from the third iteration on
build_generation_prompt_Late(st) ==
    [ feedback |-> IF st.iteration_count > 1 /\ st.current_feedback /= ""
                   THEN st.current_feedback ELSE "",
      review   |-> IF st.iteration_count > 0 /\ st.review_feedback /= <<>>
                   THEN st.review_feedback ELSE <<>> ]

\* the feedback that _build_generation_prompt and generate_code_node put into
\* the prompt: the validation digest and the critique, each only on a later
\* iteration and only when not empty ("" and <<>> stand for no section)
build_generation_prompt(st) ==
    [ feedback |-> IF st.iteration_count > 0 /\ st.current_feedback /= ""
                   THEN st.current_feedback ELSE "",
      review   |-> IF st.iteration_count > 0 /\ st.review_feedback /= <<>>
                   THEN st.review_feedback ELSE <<>> ]

\* AgentNodes.generate_code_node: the writes for one synthesis response
generate_code_node(st, resp) ==
    IF resp.raised
    THEN [ generated_code  |-> "",
           error_message   |-> "Code generation failed",
           status          |-> "failed" ]
    ELSE [ generated_code  |-> resp.code,
           iteration_count |-> st.iteration_count + 1,
           llm_calls_made  |-> st.llm_calls_made + 1,
           status          |-> "generating" ]

\* review_code_node counting the critique as an iteration
review_code_node_Counting(st, text) ==
    [k \in DOMAIN st |->
        IF k = "review_feedback" THEN text
        ELSE IF k = "iteration_count" THEN st[k] + 1
        ELSE st[k]]

\* AgentNodes.review_code_node: {**state, "review_feedback": feedback}
review_code_node(st, text) ==
    [k \in DOMAIN st |-> IF k = "review_feedback" THEN text ELSE st[k]]

\* execute_code_node whose handler reports the failed run as a success
execute_code_node_Lenient(st, resp) ==
    IF resp.raised
    THEN [ execution_output  |-> "",
           execution_error   |-> "Execution failed: " \o resp.error,
           execution_success |-> TRUE,
           status            |-> "failed" ]
    ELSE [ execution_output  |-> resp.output,
           execution_error   |-> resp.error,
           execution_success |-> resp.success,
           status            |-> "validating" ]

\* AgentNodes.execute_code_node: the writes for one engine response
execute_code_node(st, resp) ==
    IF resp.raised
    THEN [ execution_output  |-> "",
           execution_error   |-> "Execution failed: " \o resp.error,
           execution_success |-> FALSE,
           status            |-> "failed" ]
    ELSE [ execution_output  |-> resp.output,
           execution_error   |-> resp.error,
           execution_success |-> resp.success,
           status            |-> "validating" ]

\* validate_code_node passing a verdict with a single diagnostic
validate_code_node_Tolerant(st, errors) ==
    LET validation_passed == (Len(errors) <= 1)
        feedback == IF errors /= <<>> THEN JoinLines(errors) ELSE "No issues detected."
    IN  [ validation_passed |-> validation_passed,
          validation_errors |-> errors,
          status            |-> IF validation_passed THEN "completed" ELSE "failed",
          current_feedback  |-> feedback,
          feedback_history  |-> st.feedback_history \o
                                  (IF feedback /= "" THEN <<feedback>> ELSE <<>>),
          iteration_count   |-> st.iteration_count + 1 ]

\* the tail of AgentNodes.validate_code_node: the verdict for the
\* diagnostics collected from the language's tool battery
validate_code_node(st, errors) ==
    LET validation_passed == (Len(errors) = 0)
        feedback == IF errors /= <<>> THEN JoinLines(errors) ELSE "No issues detected."
    IN  [ validation_passed |-> validation_passed,
          validation_errors |-> errors,
          status            |-> IF validation_passed THEN "completed" ELSE "failed",
          current_feedback  |-> feedback,
          feedback_history  |-> st.feedback_history \o
                                  (IF feedback /= "" THEN <<feedback>> ELSE <<>>),
          iteration_count   |-> st.iteration_count + 1 ]

\* AgentNodes.generate_document_node:
\* {**state, "docx_filename": None, "final_success": True, "status": "completed"}
generate_document_node(st) ==
    [k \in DOMAIN st |->
        IF k = "final_success" THEN TRUE
        ELSE IF k = "status" THEN "completed"
        ELSE st[k]]

(***************************************************************************)
(* Routing (src/agent/graph.py).                                           *)
(***************************************************************************)
\* review_outcome with the PASS test made on the text as written
review_outcome_CaseSensitive(st) ==
    IF st.iteration_count >= st.max_iterations THEN "pass"
    ELSE IF Contains(st.review_feedback, <<"P", "A", "S", "S">>) THEN "pass"
    ELSE "retry"

\* review_outcome: "pass" or "retry"
review_outcome(st) ==
    IF st.iteration_count >= st.max_iterations THEN "pass"
    ELSE IF Contains(Upper(st.review_feedback), <<"P", "A", "S", "S">>) THEN "pass"
    ELSE "retry"

\* CodeGenerationGraph.should_retry: "complete" or "retry"
should_retry(st) ==
    IF st.validation_passed THEN "complete"
    ELSE IF st.iteration_count >= st.max_iterations THEN "complete"
    ELSE "retry"

\* the conditional edges of review_code with "pass" wired to validate_code
AfterReview_SkipExecute(st) ==
    IF review_outcome(st) = "retry" THEN {"generate_code"} ELSE {"validate_code"}

\* successors of review_code: its conditional edges
AfterReview(st) ==
    IF review_outcome(st) = "retry" THEN {"generate_code"} ELSE {"execute_code"}

\* successors of validate_code: the plain edge to generate_document together
\* with the conditional edges chosen by should_retry
AfterValidate(st) ==
    {"generate_document"} \cup
    (IF should_retry(st) = "retry" THEN {"generate_code"} ELSE {"generate_document"})

(***************************************************************************)
(* The sandbox execution engine (src/execution/executor.py).               *)
(***************************************************************************)
\* keys of CodeExecutor.IMAGE_MAP, the branches of validate_code_node
SupportedLanguages == {"python", "javascript", "java", "c", "cpp", "go"}

\* language strings a caller can pass
LanguageInputs == {"python", "Python", "cpp", "ruby", "RUBY"}

\* str.lower() of a language string
LowerName(l) ==
    CASE l = "Python" -> "python"
      [] l = "RUBY"   -> "ruby"
      [] OTHER        -> l

\* exit statuses a container can end with
ExitCodes == {0, 1, 137}

\* stdout a container can have produced
Outputs == {"", "1\n2\n3"}

\* no result yet
NoResult == [success |-> FALSE, output |-> "", error |-> "", exit_code |-> 0, set |-> FALSE]

\* a result dict of execute_code
Result(success, output, error, exit_code) ==
    [success |-> success, output |-> output, error |-> error, exit_code |-> exit_code,
     set |-> TRUE]

\* no verdict yet
NoVerdict == [passed |-> FALSE, errors |-> <<>>, set |-> FALSE]

\* the engine before a call
EngineIdle ==
    /\ ex_pc = "idle"
    /\ ex_language = ""
    /\ ex_lang = ""
    /\ ex_file = "none"
    /\ ex_temp_file = FALSE
    /\ ex_container = "none"
    /\ ex_exit = 0
    /\ ex_path = "none"
    /\ ex_result = NoResult
    /\ val_verdict = NoVerdict
    /\ val_containers = 0

\* no container of a validation tool
NoContainer == [tool |-> "", status |-> "none", full |-> <<>>]

\* no logs read yet
NoRead == [set |-> FALSE, tool |-> "", status |-> "none", full |-> <<>>, got |-> <<>>]

\* the validation aggregator before a call
ValidationIdle ==
    /\ v_pc = "idle"
    /\ v_lang = ""
    /\ v_queue = <<>>
    /\ v_details = <<>>
    /\ v_cont = NoContainer
    /\ v_ran = {}
    /\ v_threw = {}
    /\ v_read = NoRead
    /\ v_errors = <<>>
    /\ v_verdict = NoVerdict

\* no background job
PoolIdle ==
    /\ p_job = <<>>
    /\ p_pool = {}
    /\ p_cpu = 1

\* no batch call
BatchIdle ==
    /\ b_pc = "idle"
    /\ b_questions = <<>>
    /\ b_index = 0
    /\ b_finals = <<>>
    /\ b_results = <<>>
    /\ b_handed = <<>>

\* no result of parse_file yet
NoParse == [set |-> FALSE, ok |-> FALSE, error |-> "", problem |-> <<>>, language |-> ""]

\* no parse_file call
ParseIdle ==
    /\ r_pc = "idle"
    /\ r_exists = FALSE
    /\ r_content = <<>>
    /\ r_result = NoParse

\* no row with this job id
NoRow == [exists |-> FALSE, user_id |-> 0, status |-> "", output_file_path |-> ""]

\* the jobs table is empty and no task is scheduled
JobIdle ==
    /\ j_rows = [j \in JobIds |-> NoRow]
    /\ j_obj = [j \in JobIds |-> NoRow]
    /\ j_pc = [j \in JobIds |-> "none"]
    /\ j_download = [asked |-> FALSE, user |-> 0, job |-> 0, served |-> FALSE, file |-> ""]

\* nothing outside the session, the engine call and the validation call
LaterIdle == PoolIdle /\ BatchIdle /\ ParseIdle /\ JobIdle

\* no session is running: the state as create_initial_state leaves it
SessionIdle ==
    /\ state = create_initial_state(1)
    /\ active = {}
    /\ steps = 0
    /\ session_error = "none"
    /\ synth_calls = 0
    /\ exec_calls = 0
    /\ best_seen = FALSE
    /\ critique_rejected = FALSE
    /\ stage = "none"
    /\ staged_code = ""
    /\ prompt = [feedback |-> "", review |-> <<>>]
    /\ last_exec = NoExec

(***************************************************************************)
(* The session as a state machine: run_batch_job builds the initial state  *)
(* and runs the compiled graph from its entry point.                       *)
(***************************************************************************)
Init ==
    /\ \E ceiling \in 1..MaxCeiling : state = create_initial_state(ceiling)
    /\ active = {"generate_code"}
    /\ steps = 0
    /\ session_error = "none"
    /\ synth_calls = 0
    /\ exec_calls = 0
    /\ best_seen = FALSE
    /\ critique_rejected = FALSE
    /\ stage = "none"
    /\ staged_code = ""
    /\ prompt = [feedback |-> "", review |-> <<>>]
    /\ last_exec = NoExec
    /\ EngineIdle
    /\ ValidationIdle
    /\ LaterIdle

\* a superstep can run: nothing has escaped and the recursion limit is not used up
CanStep == session_error = "none" /\ steps < RecursionLimit

\* superstep {generate_code}, then the edge generate_code -> review_code
GenerateCode ==
    /\ CanStep
    /\ UNCHANGED beside_session
    /\ active = {"generate_code"}
    /\ \E resp \in SynthResponses :
        /\ state' = ApplyWrites(state, generate_code_node(state, resp))
        /\ best_seen' = (best_seen \/ (~resp.raised /\ resp.code /= ""))
    /\ active' = {"review_code"}
    /\ steps' = steps + 1
    /\ synth_calls' = synth_calls + 1
    /\ prompt' = build_generation_prompt(state)
    /\ stage' = "generated"
    /\ staged_code' = state'.generated_code
    /\ UNCHANGED <<session_error, exec_calls, critique_rejected, last_exec>>

\* superstep {review_code}, then the conditional edges of review_outcome
ReviewCode ==
    /\ CanStep
    /\ UNCHANGED beside_session
    /\ active = {"review_code"}
    /\ \E text \in ReviewTexts :
        /\ state' = ApplyWrites(state, review_code_node(state, text))
        /\ active' = AfterReview(state')
        /\ critique_rejected' = (critique_rejected \/ review_outcome(state') = "retry")
    /\ steps' = steps + 1
    /\ stage' = "reviewed"
    /\ UNCHANGED <<session_error, synth_calls, exec_calls, best_seen, staged_code, prompt,
                   last_exec>>

\* superstep {review_code} in which reviewer.invoke raises: review_code_node
\* has no handler, the exception leaves the graph and run_batch_job re-raises it
ReviewRaises ==
    /\ CanStep
    /\ UNCHANGED beside_session
    /\ active = {"review_code"}
    /\ session_error' = "ReviewError"
    /\ active' = {}
    /\ steps' = steps + 1
    /\ UNCHANGED <<state, synth_calls, exec_calls, best_seen, critique_rejected, stage,
                   staged_code, prompt, last_exec>>

\* superstep {execute_code}, then the edge execute_code -> validate_code
ExecuteCode ==
    /\ CanStep
    /\ UNCHANGED beside_session
    /\ active = {"execute_code"}
    /\ \E resp \in ExecResponses :
        /\ state' = ApplyWrites(state, execute_code_node(state, resp))
        /\ last_exec' = resp
    /\ active' = {"validate_code"}
    /\ steps' = steps + 1
    /\ exec_calls' = exec_calls + 1
    /\ stage' = "executed"
    /\ UNCHANGED <<session_error, synth_calls, best_seen, critique_rejected, staged_code,
                   prompt>>

\* superstep {validate_code}, then both kinds of outgoing edges
ValidateCode ==
    /\ CanStep
    /\ UNCHANGED beside_session
    /\ active = {"validate_code"}
    /\ \E errors \in ErrorLists :
        /\ state' = ApplyWrites(state, validate_code_node(state, errors))
        /\ active' = AfterValidate(state')
    /\ steps' = steps + 1
    /\ stage' = "validated"
    /\ UNCHANGED <<session_error, synth_calls, exec_calls, best_seen, critique_rejected,
                   staged_code, prompt, last_exec>>

\* superstep {generate_document}, then the edge generate_document -> END
GenerateDocument ==
    /\ CanStep
    /\ UNCHANGED beside_session
    /\ active = {"generate_document"}
    /\ state' = ApplyWrites(state, generate_document_node(state))
    /\ active' = {}
    /\ steps' = steps + 1
    /\ UNCHANGED <<session_error, synth_calls, exec_calls, best_seen, critique_rejected,
                   stage, staged_code, prompt, last_exec>>

\* the superstep {generate_code, generate_document} if reaching END in one
\* branch ended the whole session
GenerateAndDocument_Ends ==
    /\ CanStep
    /\ UNCHANGED beside_session
    /\ active = {"generate_code", "generate_document"}
    /\ \E resp \in SynthResponses :
        LET wg == generate_code_node(state, resp)
            wd == generate_document_node(state)
        IN  /\ best_seen' = (best_seen \/ (~resp.raised /\ resp.code /= ""))
            /\ \/ /\ session_error' = "InvalidUpdateError"
                  /\ active' = {}
                  /\ state' = state
               \/ /\ state' = ApplyWrites(ApplyWrites(state, wd), wg)
                  /\ active' = {}
                  /\ UNCHANGED session_error
               \/ /\ state' = ApplyWrites(ApplyWrites(state, wg), wd)
                  /\ active' = {}
                  /\ UNCHANGED session_error
    /\ steps' = steps + 1
    /\ synth_calls' = synth_calls + 1
    /\ prompt' = build_generation_prompt(state)
    /\ stage' = "generated"
    /\ staged_code' = state'.generated_code
    /\ UNCHANGED <<exec_calls, critique_rejected, last_exec>>

\* superstep {generate_code, generate_document}: both nodes run on the same
\* state and both write generated_code and status.  How LangGraph stores two
\* writes to one key in one step depends on the channel the state schema
\* (src/agent/state.py) declares for the key: a plain key rejects the second
\* write with InvalidUpdateError, which leaves the graph; otherwise the
\* writes are combined in one of the two orders.  generate_document leads to
\* END, generate_code to review_code.
GenerateAndDocument ==
    /\ CanStep
    /\ UNCHANGED beside_session
    /\ active = {"generate_code", "generate_document"}
    /\ \E resp \in SynthResponses :
        LET wg == generate_code_node(state, resp)
            wd == generate_document_node(state)
        IN  /\ best_seen' = (best_seen \/ (~resp.raised /\ resp.code /= ""))
            /\ \/ /\ session_error' = "InvalidUpdateError"
                  /\ active' = {}
                  /\ state' = state
               \/ /\ state' = ApplyWrites(ApplyWrites(state, wd), wg)
                  /\ active' = {"review_code"}
                  /\ UNCHANGED session_error
               \/ /\ state' = ApplyWrites(ApplyWrites(state, wg), wd)
                  /\ active' = {"review_code"}
                  /\ UNCHANGED session_error
    /\ steps' = steps + 1
    /\ synth_calls' = synth_calls + 1
    /\ prompt' = build_generation_prompt(state)
    /\ stage' = "generated"
    /\ staged_code' = state'.generated_code
    /\ UNCHANGED <<exec_calls, critique_rejected, last_exec>>

\* the recursion limit is used up with nodes still scheduled: LangGraph
\* raises GraphRecursionError out of app.ainvoke
RecursionError ==
    /\ session_error = "none"
    /\ UNCHANGED beside_session
    /\ active /= {}
    /\ steps = RecursionLimit
    /\ session_error' = "GraphRecursionError"
    /\ active' = {}
    /\ UNCHANGED <<state, steps, synth_calls, exec_calls, best_seen, critique_rejected,
                   stage, staged_code, prompt, last_exec>>

Next ==
    \/ GenerateCode
    \/ ReviewCode
    \/ ReviewRaises
    \/ ExecuteCode
    \/ ValidateCode
    \/ GenerateDocument
    \/ GenerateAndDocument
    \/ RecursionError

Spec == Init /\ [][Next]_vars

\* the graph runs to END or to an exception: a scheduled superstep is taken
FairSpec == Spec /\ WF_vars(Next)

\* app.ainvoke returned a final state to run_batch_job
Terminated == active = {} /\ session_error = "none"

TypeOK ==
    /\ active \subseteq Nodes
    /\ steps \in 0..RecursionLimit
    /\ session_error \in {"none", "ReviewError", "InvalidUpdateError", "GraphRecursionError"}
    /\ state.iteration_count \in Nat
    /\ state.max_iterations \in 1..MaxCeiling
    /\ state.generated_code \in Codes
    /\ ex_pc \in {"idle", "call", "create", "write", "run", "wait", "logs", "remove", "unlink",
                 "returned", "validated"}
    /\ ex_file \in {"none", "present", "deleted"}
    /\ ex_container \in {"none", "running", "exited", "removed"}
    /\ ex_exit \in ExitCodes \cup {0}
    /\ v_pc \in {"idle", "start", "tool", "logs", "verdict", "done"}
    /\ v_cont.status \in {"none", "running", "exited", "removed"}

(***************************************************************************)
(* One call of CodeExecutor.execute_code, followed by the validation of    *)
(* the same language string by validate_code_node.  Each action is one     *)
(* step of the call; the outcomes of the Docker SDK and of the file system *)
(* are chosen nondeterministically.  containers.run is called with         *)
(* detach=True, so it returns before the container exits and never raises  *)
(* ContainerError: that handler (lines 201-214) is not entered.            *)
(***************************************************************************)
\* the dict returned for a language outside IMAGE_MAP with exit code 0
unsupported_result_ZeroExit(language) ==
    Result(FALSE, "", "Unsupported language: " \o language, 0)

\* the dict returned for a language outside IMAGE_MAP
unsupported_result(language) ==
    Result(FALSE, "", "Unsupported language: " \o language, -1)

\* the dict returned by the outer handler of execute_code
execution_error_result(text) ==
    Result(FALSE, "", "Execution error: " \o text, -1)

\* the dict of a container that ended, with small exit codes taken as success
container_result_Lenient(exit_code, output, error) ==
    Result(exit_code \in {0, 1}, output, error, exit_code)

\* the dict of a container that ended
container_result(exit_code, output, error) ==
    Result(exit_code = 0, output, error, exit_code)

\* texts of the exceptions the Docker SDK can raise
TimeoutText == "Read timed out. (read timeout=30)"
ApiErrorText == "500 Server Error: Internal Server Error"
DecodeErrorText == "'utf-8' codec can't decode byte 0xff"

\* "timeout" in str(e).lower()
MentionsTimeout(text) == text \in {TimeoutText}

\* the dict returned by the generic handler of _execute_in_container
exception_result(text) ==
    IF MentionsTimeout(text)
    THEN Result(FALSE, "", "Execution timeout after 30 seconds", -1)
    ELSE Result(FALSE, "", text, -1)

\* what the validator of a supported language can do
ToolOutcomes ==
    { [raised |-> FALSE, launched |-> 1, errors |-> e] : e \in ErrorLists } \cup
    { [raised |-> TRUE, launched |-> n, errors |-> <<>>] : n \in {0, 1} }

\* the errors list validate_code_node collects for a language
collect_errors(lang, tools) ==
    IF lang \in SupportedLanguages
    THEN IF tools.raised THEN <<"Validation engine error: tool failed">> ELSE tools.errors
    ELSE <<"Unsupported language: " \o lang>>

ExecInit ==
    /\ state = create_initial_state(1)
    /\ active = {}
    /\ steps = 0
    /\ session_error = "none"
    /\ synth_calls = 0
    /\ exec_calls = 0
    /\ best_seen = FALSE
    /\ critique_rejected = FALSE
    /\ stage = "none"
    /\ staged_code = ""
    /\ prompt = [feedback |-> "", review |-> <<>>]
    /\ last_exec = NoExec
    /\ ex_pc = "call"
    /\ ex_language \in LanguageInputs
    /\ ex_lang = ""
    /\ ex_file = "none"
    /\ ex_temp_file = FALSE
    /\ ex_container = "none"
    /\ ex_exit = 0
    /\ ex_path = "none"
    /\ ex_result = NoResult
    /\ val_verdict = NoVerdict
    /\ val_containers = 0
    /\ ValidationIdle
    /\ LaterIdle

\* execute_code, lines 76-95: lower-case the language, reject what IMAGE_MAP lacks
ExCall ==
    /\ ex_pc = "call"
    /\ ex_lang' = LowerName(ex_language)
    /\ IF ex_lang' \notin SupportedLanguages
       THEN /\ ex_result' = unsupported_result(ex_lang')
            /\ ex_path' = "unsupported"
            /\ ex_pc' = "returned"
       ELSE /\ ex_pc' = "create"
            /\ UNCHANGED <<ex_result, ex_path>>
    /\ UNCHANGED <<ex_language, ex_file, ex_temp_file, ex_container, ex_exit,
                   val_verdict, val_containers>>
    /\ UNCHANGED beside_engine

\* execute_code, lines 97-104 and 124-132: NamedTemporaryFile creates the
\* scratch file with delete=False; an exception goes to the outer handler
ExCreateScratch ==
    /\ ex_pc = "create"
    /\ \/ /\ ex_file' = "present"
          /\ ex_pc' = "write"
          /\ UNCHANGED <<ex_result, ex_path>>
       \/ /\ ex_result' = execution_error_result("No usable temporary directory")
          /\ ex_path' = "scratch_error"
          /\ ex_pc' = "returned"
          /\ UNCHANGED ex_file
    /\ UNCHANGED <<ex_language, ex_lang, ex_temp_file, ex_container, ex_exit,
                   val_verdict, val_containers>>
    /\ UNCHANGED beside_engine

\* execute_code, lines 105-106 and 124-132: the code is written and the file
\* closed, then temp_file is bound; an exception of the write goes to the
\* outer handler, past the inner try whose finally block unlinks the file
ExWriteScratch ==
    /\ ex_pc = "write"
    /\ \/ /\ ex_temp_file' = TRUE
          /\ ex_pc' = "run"
          /\ UNCHANGED <<ex_result, ex_path>>
       \/ /\ ex_result' = execution_error_result("surrogates not allowed")
          /\ ex_path' = "scratch_error"
          /\ ex_pc' = "returned"
          /\ UNCHANGED ex_temp_file
    /\ UNCHANGED <<ex_language, ex_lang, ex_file, ex_container, ex_exit,
                   val_verdict, val_containers>>
    /\ UNCHANGED beside_engine

\* _execute_in_container, lines 168-172 and 216-236: start the container
ExRunContainer ==
    /\ ex_pc = "run"
    /\ \/ /\ ex_container' = "running"
          /\ ex_pc' = "wait"
          /\ UNCHANGED <<ex_result, ex_path>>
       \/ \E text \in {ApiErrorText, TimeoutText} :
             /\ ex_result' = exception_result(text)
             /\ ex_path' = "run_error"
             /\ ex_pc' = "remove"
             /\ UNCHANGED ex_container
    /\ UNCHANGED <<ex_language, ex_lang, ex_file, ex_temp_file, ex_exit,
                   val_verdict, val_containers>>
    /\ UNCHANGED beside_engine

\* _execute_in_container, lines 175 and 216-236: wait for the container
ExWait ==
    /\ ex_pc = "wait"
    /\ \/ \E code \in ExitCodes :
             /\ ex_exit' = code
             /\ ex_container' = "exited"
             /\ ex_pc' = "logs"
             /\ UNCHANGED <<ex_result, ex_path>>
       \/ /\ ex_result' = exception_result(TimeoutText)
          /\ ex_path' = "timeout"
          /\ ex_pc' = "remove"
          /\ UNCHANGED <<ex_exit, ex_container>>
       \/ /\ ex_result' = exception_result(ApiErrorText)
          /\ ex_path' = "wait_error"
          /\ ex_pc' = "remove"
          /\ UNCHANGED <<ex_exit, ex_container>>
    /\ UNCHANGED <<ex_language, ex_lang, ex_file, ex_temp_file, val_verdict, val_containers>>
    /\ UNCHANGED beside_engine

\* _execute_in_container, lines 179-199 and 216-236: read and decode the logs
ExReadLogs ==
    /\ ex_pc = "logs"
    /\ \/ \E output \in Outputs, error \in {"", "Traceback"} :
             /\ ex_result' = container_result(ex_exit, output, error)
             /\ ex_path' = "completed"
       \/ \E text \in {ApiErrorText, DecodeErrorText} :
             /\ ex_result' = exception_result(text)
             /\ ex_path' = "logs_error"
    /\ ex_pc' = "remove"
    /\ UNCHANGED <<ex_language, ex_lang, ex_file, ex_temp_file, ex_container, ex_exit,
                   val_verdict, val_containers>>
    /\ UNCHANGED beside_engine

\* _execute_in_container, lines 238-244: the finally block removes the
\* container if there is one; an exception of remove is swallowed
ExRemoveContainer ==
    /\ ex_pc = "remove"
    /\ IF ex_container /= "none"
       THEN \E removed \in BOOLEAN :
               ex_container' = IF removed THEN "removed" ELSE ex_container
       ELSE UNCHANGED ex_container
    /\ ex_pc' = "unlink"
    /\ UNCHANGED <<ex_language, ex_lang, ex_file, ex_temp_file, ex_exit, ex_path,
                   ex_result, val_verdict, val_containers>>
    /\ UNCHANGED beside_engine

\* execute_code, lines 117-122: the finally block unlinks the scratch file;
\* an exception of unlink is swallowed
ExUnlink ==
    /\ ex_pc = "unlink"
    /\ \E unlinked \in BOOLEAN :
          ex_file' = IF unlinked THEN "deleted" ELSE ex_file
    /\ ex_pc' = "returned"
    /\ UNCHANGED <<ex_language, ex_lang, ex_temp_file, ex_container, ex_exit, ex_path,
                   ex_result, val_verdict, val_containers>>
    /\ UNCHANGED beside_engine

\* validate_code_node, lines 298-369, for the language string as passed
ExValidate ==
    /\ ex_pc = "returned"
    /\ \E tools \in ToolOutcomes :
          LET errors == collect_errors(ex_language, tools)
          IN  /\ val_verdict' =
                   [passed |-> validate_code_node(state, errors).validation_passed,
                    errors |-> validate_code_node(state, errors).validation_errors,
                    set    |-> TRUE]
              /\ val_containers' =
                   IF ex_language \in SupportedLanguages THEN tools.launched ELSE 0
    /\ ex_pc' = "validated"
    /\ UNCHANGED <<ex_language, ex_lang, ex_file, ex_temp_file, ex_container, ex_exit,
                   ex_path, ex_result>>
    /\ UNCHANGED beside_engine

ExecNext ==
    \/ ExCall
    \/ ExCreateScratch
    \/ ExWriteScratch
    \/ ExRunContainer
    \/ ExWait
    \/ ExReadLogs
    \/ ExRemoveContainer
    \/ ExUnlink
    \/ ExValidate

ExecSpec == ExecInit /\ [][ExecNext]_vars

\* execute_code has returned to its caller
Returned == ex_pc \in {"returned", "validated"}

(***************************************************************************)
(* The validation aggregator: validate_code_node (src/agent/nodes.py) over *)
(* the validators of src/validation.  One call is a sequence of steps; the *)
(* tool containers are started detached and run on their own, so their     *)
(* exit and their automatic removal (remove=True) interleave with the      *)
(* steps of the call.  The validators of "javascript" and "c" are not in   *)
(* the source tree and are not modelled.                                   *)
(***************************************************************************)
\* str.lower() of a character
LowerChar(c) ==
    CASE c = "A" -> "a"
      [] c = "B" -> "b"
      [] c = "C" -> "c"
      [] c = "D" -> "d"
      [] c = "E" -> "e"
      [] c = "F" -> "f"
      [] c = "G" -> "g"
      [] c = "H" -> "h"
      [] c = "I" -> "i"
      [] c = "J" -> "j"
      [] c = "K" -> "k"
      [] c = "L" -> "l"
      [] c = "M" -> "m"
      [] c = "N" -> "n"
      [] c = "O" -> "o"
      [] c = "P" -> "p"
      [] c = "Q" -> "q"
      [] c = "R" -> "r"
      [] c = "S" -> "s"
      [] c = "T" -> "t"
      [] c = "U" -> "u"
      [] c = "V" -> "v"
      [] c = "W" -> "w"
      [] c = "X" -> "x"
      [] c = "Y" -> "y"
      [] c = "Z" -> "z"
      [] OTHER   -> c

\* str.lower() of a text
RECURSIVE Lower(_)
Lower(s) == IF s = <<>> THEN <<>> ELSE <<LowerChar(Head(s))>> \o Lower(Tail(s))

\* the characters of a text as one string
RECURSIVE Str(_)
Str(s) == IF s = <<>> THEN "" ELSE Head(s) \o Str(Tail(s))

\* f"Error running {tool}: {e}"
ErrorRunning == <<"E", "r", "r", "o", "r", " ", "r", "u", "n", "n", "i", "n", "g", " ", "t", "o", "o", "l", ":", " ", "4", "0", "4">>

KwError == <<"E", "r", "r", "o", "r">>

KwWarning == <<"w", "a", "r", "n", "i", "n", "g">>

KwIssue == <<"i", "s", "s", "u", "e">>

KwErrorLower == <<"e", "r", "r", "o", "r">>

\* the languages validate_code_node is called with
ValLanguages == {"python", "cpp", "go", "java", "ruby"}

\* the tools a validator runs, in the order it runs them
Battery(lang) ==
    CASE lang = "python" -> <<"pylint", "flake8", "bandit", "black">>
      [] lang = "cpp"    -> <<"cppcheck", "g++">>
      [] lang = "go"     -> <<"govet", "gobuild">>
      [] lang = "java"   -> <<"javac">>
      [] OTHER           -> <<>>

\* the languages that have a battery
BatteryLanguages == {"python", "cpp", "go", "java"}

\* what a tool prints on code without findings
CleanReport(tool) ==
    CASE tool = "pylint"   -> <<"r", "a", "t", "e", "d", " ", "a", "t", " ", "1", "0", ".", "0", "0", "/", "1", "0">> \* "rated at 10.00/10"
      [] tool = "flake8"   -> <<>> \* the empty text
      [] tool = "bandit"   -> <<"N", "o", " ", "i", "s", "s", "u", "e", "s", " ", "i", "d", "e", "n", "t", "i", "f", "i", "e", "d", ".">> \* "No issues identified."
      [] tool = "black"    -> <<"A", "l", "l", " ", "d", "o", "n", "e", "!">> \* "All done!"
      [] tool = "cppcheck" -> <<"C", "h", "e", "c", "k", "i", "n", "g", " ", "c", "o", "d", "e", ".", "c", "p", "p", " ", ".", ".", ".">> \* "Checking code.cpp ..."
      [] OTHER             -> <<>> \* the empty text

\* what a tool prints on code with a finding
FindingReport(tool) ==
    CASE tool = "pylint"   -> <<"W", "0", "6", "1", "1", ":", " ", "U", "n", "u", "s", "e", "d", " ", "i", "m", "p", "o", "r", "t", " ", "o", "s">> \* "W0611: Unused import os"
      [] tool = "flake8"   -> <<"E", "9", "9", "9", " ", "S", "y", "n", "t", "a", "x", "E", "r", "r", "o", "r">> \* "E999 SyntaxError"
      [] tool = "bandit"   -> <<"I", "s", "s", "u", "e", ":", " ", "[", "B", "6", "0", "2", "]">> \* "Issue: [B602]"
      [] tool = "black"    -> <<"w", "o", "u", "l", "d", " ", "r", "e", "f", "o", "r", "m", "a", "t", " ", "c", "o", "d", "e", ".", "p", "y">> \* "would reformat code.py"
      [] tool = "gobuild"  -> <<"b", "u", "i", "l", "d", " ", "f", "a", "i", "l", "e", "d">> \* "build failed"
      [] OTHER             -> <<"e", "r", "r", "o", "r", ":", " ", "e", "x", "p", "e", "c", "t", "e", "d", " ", "'", ";", "'">> \* "error: expected ';'"

\* the complete outputs a tool can produce
ToolTexts(tool) == {CleanReport(tool), FindingReport(tool)}

\* the keyword test validate_code_node applies to one tool output; for
\* Python the test is  out and "Error" in out or ... or ...,  in which
\* `and` binds tighter than `or`
Flagged(lang, out) ==
    CASE lang = "python" ->
           \/ (out /= <<>> /\ Contains(out, KwError))
           \/ Contains(Lower(out), KwWarning)
           \/ Contains(Lower(out), KwIssue)
      [] lang = "java" ->
           out /= <<>> /\ (\/ Contains(Lower(out), KwErrorLower)
                            \/ Contains(Lower(out), <<"e", "x", "c", "e", "p", "t", "i", "o", "n">>))
      [] lang = "cpp" ->
           out /= <<>> /\ (\/ Contains(Lower(out), KwErrorLower)
                            \/ Contains(Lower(out), <<"f", "a", "i", "l", "e", "d">>)
                            \/ Contains(Lower(out), KwWarning))
      [] lang = "go" ->
           out /= <<>> /\ (\/ Contains(Lower(out), KwErrorLower)
                            \/ Contains(Lower(out), <<"f", "a", "i", "l">>)
                            \/ Contains(Lower(out), KwWarning))
      [] OTHER -> FALSE

\* the diagnostics of the collected outputs, in tool order
RECURSIVE judge(_, _)
judge(lang, details) ==
    IF details = <<>> THEN <<>>
    ELSE (IF Flagged(lang, Head(details).out)
          THEN <<Head(details).tool \o ": " \o Str(Head(details).out)>>
          ELSE <<>>) \o judge(lang, Tail(details))

\* the output collected for a tool, "" if there is none: details.get(tool, "")
OutputOf(details, tool) ==
    IF \E i \in 1..Len(details) : details[i].tool = tool
    THEN details[CHOOSE i \in 1..Len(details) : details[i].tool = tool].out
    ELSE <<>>

\* is_code_secure (src/validation/security.py)
is_code_secure(details) ==
    \/ Contains(OutputOf(details, "bandit"), <<"N", "o", " ", "i", "s", "s", "u", "e", "s", " ", "i", "d", "e", "n", "t", "i", "f", "i", "e", "d", ".">>)
    \/ Contains(OutputOf(details, "bandit"), <<"N", "o", " ", "s", "e", "c", "u", "r", "i", "t", "y", " ", "i", "s", "s", "u", "e", "s", " ", "f", "o", "u", "n", "d">>)

\* the diagnostic of the handler of validate_code_node
EngineError == "Validation engine error: run_tool failed"

ValInit ==
    /\ SessionIdle
    /\ EngineIdle
    /\ LaterIdle
    /\ v_pc = "start"
    /\ v_lang \in ValLanguages
    /\ v_queue = <<>>
    /\ v_details = <<>>
    /\ v_cont = NoContainer
    /\ v_ran = {}
    /\ v_threw = {}
    /\ v_read = NoRead
    /\ v_errors = <<>>
    /\ v_verdict = NoVerdict

\* validate_code_node, lines 298-307 and 357-367: choose the validator of
\* the language, construct it and write the code file; a language without
\* branch gets its diagnostic, an exception the one of the handler
ValDispatch ==
    /\ v_pc = "start"
    /\ IF v_lang \notin BatteryLanguages
       THEN /\ v_errors' = <<"Unsupported language: " \o v_lang>>
            /\ v_pc' = "verdict"
            /\ UNCHANGED v_queue
       ELSE \/ /\ v_queue' = Battery(v_lang)
               /\ v_pc' = "tool"
               /\ UNCHANGED v_errors
            \/ /\ v_errors' = <<EngineError>>
               /\ v_pc' = "verdict"
               /\ UNCHANGED v_queue
    /\ UNCHANGED <<v_lang, v_details, v_cont, v_ran, v_threw, v_read, v_verdict>>
    /\ UNCHANGED beside_validation

\* what the exception of a run_tool call does: PythonValidator.validate
\* catches it per tool (quality.py:40-45) and goes on; the other validators
\* let it escape to the handler of validate_code_node, which drops what was
\* collected (nodes.py:360-367)
ToolRaised(tool) ==
    /\ v_threw' = v_threw \cup {tool}
    /\ v_cont' = NoContainer
    /\ IF v_lang = "python"
       THEN /\ v_details' = Append(v_details, [tool |-> tool, out |-> ErrorRunning])
            /\ v_queue' = Tail(v_queue)
            /\ v_pc' = "tool"
            /\ UNCHANGED v_errors
       ELSE /\ v_details' = <<>>
            /\ v_queue' = <<>>
            /\ v_errors' = <<EngineError>>
            /\ v_pc' = "verdict"

\* run_tool, lines 52-65: start the container of the next tool, detached
ValRunTool ==
    /\ v_pc = "tool"
    /\ v_queue /= <<>>
    /\ LET tool == Head(v_queue)
       IN  /\ v_ran' = v_ran \cup {tool}
           /\ \/ \E full \in ToolTexts(tool) :
                    /\ v_cont' = [tool |-> tool, status |-> "running", full |-> full]
                    /\ v_pc' = "logs"
                    /\ UNCHANGED <<v_queue, v_details, v_threw, v_errors>>
              \/ ToolRaised(tool)
    /\ UNCHANGED <<v_lang, v_read, v_verdict>>
    /\ UNCHANGED beside_validation

\* the tool process ends, its output complete
ToolExits ==
    /\ v_cont.status = "running"
    /\ v_cont' = [v_cont EXCEPT !.status = "exited"]
    /\ UNCHANGED <<v_pc, v_lang, v_queue, v_details, v_ran, v_threw, v_read, v_errors,
                   v_verdict>>
    /\ UNCHANGED beside_validation

\* the daemon removes the exited container (remove=True)
ToolRemoved ==
    /\ v_cont.status = "exited"
    /\ v_cont' = [v_cont EXCEPT !.status = "removed"]
    /\ UNCHANGED <<v_pc, v_lang, v_queue, v_details, v_ran, v_threw, v_read, v_errors,
                   v_verdict>>
    /\ UNCHANGED beside_validation

\* run_tool, line 66: container.logs returns what the container has written
\* so far (nothing while the tool is still starting), and raises NotFound
\* once the container is removed
ValReadLogs ==
    /\ v_pc = "logs"
    /\ LET tool == v_cont.tool
           got  == IF v_cont.status = "exited" THEN v_cont.full ELSE <<>>
       IN  /\ v_read' = [set |-> TRUE, tool |-> tool, status |-> v_cont.status,
                         full |-> v_cont.full, got |-> got]
           /\ IF v_cont.status = "removed"
              THEN ToolRaised(tool)
              ELSE /\ v_details' = Append(v_details, [tool |-> tool, out |-> got])
                   /\ v_queue' = Tail(v_queue)
                   /\ v_cont' = NoContainer
                   /\ v_pc' = "tool"
                   /\ UNCHANGED <<v_threw, v_errors>>
    /\ UNCHANGED <<v_lang, v_ran, v_verdict>>
    /\ UNCHANGED beside_validation

\* validate_code_node, lines 308-355: apply the keyword test to the outputs
ValJudge ==
    /\ v_pc = "tool"
    /\ v_queue = <<>>
    /\ v_errors' = judge(v_lang, v_details)
    /\ v_pc' = "verdict"
    /\ UNCHANGED <<v_lang, v_queue, v_details, v_cont, v_ran, v_threw, v_read, v_verdict>>
    /\ UNCHANGED beside_validation

\* validate_code_node, lines 369-386: the verdict
ValVerdict ==
    /\ v_pc = "verdict"
    /\ v_verdict' = [passed |-> validate_code_node(state, v_errors).validation_passed,
                     errors |-> validate_code_node(state, v_errors).validation_errors,
                     set    |-> TRUE]
    /\ v_pc' = "done"
    /\ UNCHANGED <<v_lang, v_queue, v_details, v_cont, v_ran, v_threw, v_read, v_errors>>
    /\ UNCHANGED beside_validation

ValNext ==
    \/ ValDispatch
    \/ ValRunTool
    \/ ToolExits
    \/ ToolRemoved
    \/ ValReadLogs
    \/ ValJudge
    \/ ValVerdict

ValSpec == ValInit /\ [][ValNext]_vars

(***************************************************************************)
(* The containers of concurrent background jobs.  submit_assignment hands  *)
(* every accepted submission to a background task (app.py:297-299); each   *)
(* task runs process_assignment_job, whose sessions launch one execution   *)
(* container, wait for it and remove it (executor.py:170-244), and then    *)
(* launch the tool containers of the validator detached, without waiting   *)
(* for them (quality.py:52-66).  A tool container leaves the pool when its *)
(* tool exits and the daemon removes it.                                   *)
(***************************************************************************)
\* the languages of the jobs
PoolLanguages == {"python", "go"}

\* settings.docker_memory_limit
docker_memory_limit == "512m"

\* CodeExecutor.IMAGE_MAP
IMAGE_MAP(language) ==
    CASE language = "python"     -> "ai-agent-python:latest"
      [] language = "javascript" -> "ai-agent-javascript:latest"
      [] language = "java"       -> "ai-agent-java:latest"
      [] language = "c"          -> "ai-agent-c:latest"
      [] language = "cpp"        -> "ai-agent-cpp:latest"
      [] language = "go"         -> "golang:1.21-alpine"

\* the IMAGE of the validator of a language
ValidatorImage(lang) ==
    CASE lang = "python" -> "ai-agent-python:latest"
      [] lang = "cpp"    -> "ai-agent-cpp:latest"
      [] lang = "go"     -> "golang:1.21-alpine"
      [] lang = "java"   -> "ai-agent-java:latest"

\* container_config of _execute_in_container with the scratch directory writable
executor_container_config_Writable(language, cpu) ==
    [ image            |-> IMAGE_MAP(language),
      mode             |-> "rw",
      network_disabled |-> TRUE,
      mem_limit        |-> docker_memory_limit,
      cpu_quota        |-> cpu * CpuPeriod,
      cpu_period       |-> CpuPeriod,
      detach           |-> TRUE,
      remove           |-> FALSE ]

\* container_config of _execute_in_container
executor_container_config(language, cpu) ==
    [ image            |-> IMAGE_MAP(language),
      mode             |-> "ro",
      network_disabled |-> TRUE,
      mem_limit        |-> docker_memory_limit,
      cpu_quota        |-> cpu * CpuPeriod,
      cpu_period       |-> CpuPeriod,
      detach           |-> TRUE,
      remove           |-> FALSE ]

\* the arguments of containers.run in run_tool
tool_container_config(lang, cpu) ==
    [ image            |-> ValidatorImage(lang),
      mode             |-> "rw",
      network_disabled |-> TRUE,
      mem_limit        |-> docker_memory_limit,
      cpu_quota        |-> cpu * CpuPeriod,
      cpu_period       |-> CpuPeriod,
      detach           |-> TRUE,
      remove           |-> TRUE ]

\* the jobs of the model
Jobs == 1..MaxJobs

PoolInit ==
    /\ SessionIdle
    /\ EngineIdle
    /\ ValidationIdle
    /\ BatchIdle
    /\ ParseIdle
    /\ JobIdle
    /\ p_job \in [Jobs -> {[pc |-> "queued", lang |-> l, queue |-> <<>>] : l \in PoolLanguages}]
    /\ p_pool = {}
    /\ p_cpu \in {1, 2}

\* submit_assignment, lines 297-299, and process_assignment_job, lines 87-101:
\* the background task of a queued job starts, whatever else is running
StartJob(j) ==
    /\ p_job[j].pc = "queued"
    /\ p_job' = [p_job EXCEPT ![j].pc = "execute"]
    /\ UNCHANGED <<p_pool, p_cpu>>
    /\ UNCHANGED beside_pool

\* _execute_in_container, lines 149-172: launch the execution container
LaunchExecution(j) ==
    /\ p_job[j].pc = "execute"
    /\ p_pool' = p_pool \cup
          {[job |-> j, kind |-> "execution", tool |-> "",
            config |-> executor_container_config(p_job[j].lang, p_cpu)]}
    /\ p_job' = [p_job EXCEPT ![j].pc = "wait"]
    /\ UNCHANGED p_cpu
    /\ UNCHANGED beside_pool

\* _execute_in_container, lines 175-244: the wait returns or times out and
\* the container is force-removed (the removal is taken to succeed here)
FinishExecution(j) ==
    /\ p_job[j].pc = "wait"
    /\ p_pool' = {c \in p_pool : ~(c.job = j /\ c.kind = "execution")}
    /\ p_job' = [p_job EXCEPT ![j].pc = "validate", ![j].queue = Battery(p_job[j].lang)]
    /\ UNCHANGED p_cpu
    /\ UNCHANGED beside_pool

\* run_tool, lines 52-66: launch the container of the next tool and go on
LaunchTool(j) ==
    /\ p_job[j].pc = "validate"
    /\ p_job[j].queue /= <<>>
    /\ p_pool' = p_pool \cup
          {[job |-> j, kind |-> "tool", tool |-> Head(p_job[j].queue),
            config |-> tool_container_config(p_job[j].lang, p_cpu)]}
    /\ p_job' = [p_job EXCEPT ![j].queue = Tail(p_job[j].queue),
                              ![j].pc = IF Tail(p_job[j].queue) = <<>>
                                        THEN "done" ELSE "validate"]
    /\ UNCHANGED p_cpu
    /\ UNCHANGED beside_pool

\* a tool exits and the daemon removes its container (remove=True)
ToolContainerExits ==
    /\ \E c \in p_pool :
          /\ c.kind = "tool"
          /\ p_pool' = p_pool \ {c}
    /\ UNCHANGED <<p_job, p_cpu>>
    /\ UNCHANGED beside_pool

PoolNext ==
    \/ \E j \in Jobs : StartJob(j)
    \/ \E j \in Jobs : LaunchExecution(j)
    \/ \E j \in Jobs : FinishExecution(j)
    \/ \E j \in Jobs : LaunchTool(j)
    \/ ToolContainerExits

PoolSpec == PoolInit /\ [][PoolNext]_vars

(***************************************************************************)
(* The batch driver: run_batch_job (src/agent/runner.py).                  *)
(***************************************************************************)
\* the problem texts of the questions
QuestionTexts == {"Add two numbers", "Reverse a list"}

\* what parse_multi_question_file_with_meta returns for the questions: an
\* ordered list, the questions numbered in the order of the file
QuestionLists ==
    UNION { { [i \in 1..n |-> [number |-> i, question |-> t[i], language |-> l[i]]] :
                t \in [1..n -> QuestionTexts], l \in [1..n -> {"python", "cpp"}] } :
            n \in 0..MaxQuestions }

\* the final states a session can return to the driver
FinalStates ==
    { [generated_code |-> c, execution_output |-> o] : c \in Codes, o \in Outputs }

\* the entry of results_for_doc numbered by its position in a list of one
result_entry_Unnumbered(q, final_state) ==
    [ number |-> 1,
      text   |-> q.question,
      code   |-> final_state.generated_code,
      output |-> final_state.execution_output ]

\* the entry run_batch_job appends to results_for_doc
result_entry(q, final_state) ==
    [ number |-> q.number,
      text   |-> q.question,
      code   |-> final_state.generated_code,
      output |-> final_state.execution_output ]

BatchInit ==
    /\ SessionIdle
    /\ EngineIdle
    /\ ValidationIdle
    /\ PoolIdle
    /\ ParseIdle
    /\ JobIdle
    /\ b_pc = "parse"
    /\ b_questions = <<>>
    /\ b_index = 0
    /\ b_finals = <<>>
    /\ b_results = <<>>
    /\ b_handed = <<>>

\* run_batch_job, lines 33-35 and 94-96: parse the file; a parsing error is
\* raised to the caller
BatchParse ==
    /\ b_pc = "parse"
    /\ \/ \E qs \in QuestionLists :
             /\ b_questions' = qs
             /\ b_index' = 1
             /\ b_pc' = "loop"
       \/ /\ b_pc' = "raised"
          /\ UNCHANGED <<b_questions, b_index>>
    /\ UNCHANGED <<b_finals, b_results, b_handed>>
    /\ UNCHANGED beside_batch

\* run_batch_job, lines 38-72 and 94-96: run the session of the next
\* question and append its entry; a session that raises ends the batch
BatchRunSession ==
    /\ b_pc = "loop"
    /\ b_index <= Len(b_questions)
    /\ \/ \E final_state \in FinalStates :
             /\ b_finals' = Append(b_finals, final_state)
             /\ b_results' = Append(b_results, result_entry(b_questions[b_index], final_state))
             /\ b_index' = b_index + 1
             /\ UNCHANGED b_pc
       \/ /\ b_pc' = "raised"
          /\ UNCHANGED <<b_finals, b_results, b_index>>
    /\ UNCHANGED <<b_questions, b_handed>>
    /\ UNCHANGED beside_batch

\* run_batch_job, lines 75-96: hand results_for_doc to the renderer and
\* return the path; an exception of the renderer is raised to the caller
BatchRender ==
    /\ b_pc = "loop"
    /\ b_index > Len(b_questions)
    /\ b_handed' = b_results
    /\ \/ b_pc' = "returned"
       \/ b_pc' = "raised"
    /\ UNCHANGED <<b_questions, b_index, b_finals, b_results>>
    /\ UNCHANGED beside_batch

BatchNext ==
    \/ BatchParse
    \/ BatchRunSession
    \/ BatchRender

BatchSpec == BatchInit /\ [][BatchNext]_vars

(***************************************************************************)
(* The input parser: InputParser.parse_file (src/agent/input_parser.py).   *)
(* Texts are sequences of characters; the regular expressions of           *)
(* LANGUAGE_PATTERNS are matched as re.search with re.IGNORECASE matches   *)
(* them: leftmost, the white space greedy, the group a maximal run of word *)
(* characters.                                                             *)
(***************************************************************************)
\* the lines an input file is made of: "Language: Python", "python", "C++",
\* "Problem:", "Add two numbers", "Language: Rust", "use a stack",
\* "Code in Go" and the empty line
FileLines ==
    { <<"L", "a", "n", "g", "u", "a", "g", "e", ":", " ", "P", "y", "t", "h", "o", "n">>,
      <<"p", "y", "t", "h", "o", "n">>,
      <<"C", "+", "+">>,
      <<"P", "r", "o", "b", "l", "e", "m", ":">>,
      <<"A", "d", "d", " ", "t", "w", "o", " ", "n", "u", "m", "b", "e", "r", "s">>,
      <<"L", "a", "n", "g", "u", "a", "g", "e", ":", " ", "R", "u", "s", "t">>,
      <<"u", "s", "e", " ", "a", " ", "s", "t", "a", "c", "k">>,
      <<"C", "o", "d", "e", " ", "i", "n", " ", "G", "o">>,
      <<>> }

\* \w of the regular expressions
WordChars ==
    {"a", "b", "c", "d", "e", "f", "g", "h", "i", "j", "k", "l", "m",
     "n", "o", "p", "q", "r", "s", "t", "u", "v", "w", "x", "y", "z",
     "A", "B", "C", "D", "E", "F", "G", "H", "I", "J", "K", "L", "M",
     "N", "O", "P", "Q", "R", "S", "T", "U", "V", "W", "X", "Y", "Z",
     "0", "1", "2", "3", "4", "5", "6", "7", "8", "9", "_"}

\* \s of the regular expressions, and what str.strip removes
SpaceChars == {" ", "\n", "\t"}

\* the lines _extract_problem drops as structural headers
HeaderLines ==
    { <<"p", "r", "o", "b", "l", "e", "m", ":">>,
      <<"p", "r", "o", "b", "l", "e", "m">>,
      <<"t", "a", "s", "k", ":">>,
      <<"t", "a", "s", "k">> }

\* InputParser.SUPPORTED_LANGUAGES: the aliases and the language of each
LanguageAliases ==
    {[alias |-> <<"p", "y", "t", "h", "o", "n">>, language |-> "python"],
     [alias |-> <<"p", "y">>, language |-> "python"],
     [alias |-> <<"j", "a", "v", "a", "s", "c", "r", "i", "p", "t">>, language |-> "javascript"],
     [alias |-> <<"j", "s">>, language |-> "javascript"],
     [alias |-> <<"j", "a", "v", "a">>, language |-> "java"],
     [alias |-> <<"c">>, language |-> "c"],
     [alias |-> <<"c", "p", "p">>, language |-> "cpp"],
     [alias |-> <<"c", "+", "+">>, language |-> "cpp"],
     [alias |-> <<"g", "o">>, language |-> "go"],
     [alias |-> <<"g", "o", "l", "a", "n", "g">>, language |-> "go"]}

\* "\n".join(lines) of texts
RECURSIVE JoinNL(_)
JoinNL(lines) ==
    IF lines = <<>> THEN <<>>
    ELSE IF Len(lines) = 1 THEN lines[1]
    ELSE lines[1] \o <<"\n">> \o JoinNL(Tail(lines))

\* the input files
FileContents ==
    UNION { { JoinNL(ls) : ls \in [1..n -> FileLines] } : n \in 1..MaxLines }

\* str.lstrip()
RECURSIVE LStrip(_)
LStrip(s) == IF s /= <<>> /\ Head(s) \in SpaceChars THEN LStrip(Tail(s)) ELSE s

\* str.rstrip()
RECURSIVE RStrip(_)
RStrip(s) ==
    IF s /= <<>> /\ s[Len(s)] \in SpaceChars THEN RStrip(SubSeq(s, 1, Len(s) - 1)) ELSE s

\* str.strip()
Strip(s) == RStrip(LStrip(s))

\* str.split("\n")
RECURSIVE SplitLines(_)
SplitLines(s) ==
    IF \E i \in 1..Len(s) : s[i] = "\n"
    THEN LET i == CHOOSE k \in 1..Len(s) : s[k] = "\n" /\ \A m \in 1..(k - 1) : s[m] /= "\n"
         IN  <<SubSeq(s, 1, i - 1)>> \o SplitLines(SubSeq(s, i + 1, Len(s)))
    ELSE <<s>>

\* LANGUAGE_PATTERNS: each pattern is its literals, each followed by \s+
\* (space TRUE) or \s* (space FALSE), and ends with the group (\w+)
LANGUAGE_PATTERNS ==
    << <<[lit |-> <<"l", "a", "n", "g", "u", "a", "g", "e", ":">>, space |-> FALSE]>>,
       <<[lit |-> <<"p", "r", "o", "g", "r", "a", "m", "m", "i", "n", "g", " ", "l", "a", "n", "g", "u", "a", "g", "e", ":">>, space |-> FALSE]>>,
       <<[lit |-> <<"u", "s", "e">>, space |-> TRUE]>>,
       <<[lit |-> <<"w", "r", "i", "t", "e">>, space |-> TRUE], [lit |-> <<"i", "n">>, space |-> TRUE]>>,
       <<[lit |-> <<"c", "o", "d", "e">>, space |-> TRUE], [lit |-> <<"i", "n">>, space |-> TRUE]>> >>

\* the position after the white space that starts at i
RECURSIVE SkipSpace(_, _)
SkipSpace(s, i) == IF i <= Len(s) /\ s[i] \in SpaceChars THEN SkipSpace(s, i + 1) ELSE i

\* the position after the word characters that start at i
RECURSIVE WordEnd(_, _)
WordEnd(s, i) == IF i <= Len(s) /\ s[i] \in WordChars THEN WordEnd(s, i + 1) ELSE i

\* where the group starts if the pattern matches s at i, else 0; ls is s lower-cased
RECURSIVE MatchFrom(_, _, _, _)
MatchFrom(s, ls, i, segs) ==
    IF segs = <<>>
    THEN IF i <= Len(s) /\ s[i] \in WordChars THEN i ELSE 0
    ELSE LET lit == Head(segs).lit
             j   == i + Len(lit)
             k   == SkipSpace(s, j)
         IN  IF j - 1 > Len(s) \/ SubSeq(ls, i, j - 1) /= lit THEN 0
             ELSE IF Head(segs).space /\ k = j THEN 0
             ELSE MatchFrom(s, ls, k, Tail(segs))

\* match.group(1) of re.search(pattern, s, re.IGNORECASE), <<>> without match
Search(s, segs) ==
    LET ls   == Lower(s)
        hits == {i \in 1..Len(s) : MatchFrom(s, ls, i, segs) /= 0}
    IN  IF hits = {} THEN <<>>
        ELSE LET i == CHOOSE h \in hits : \A o \in hits : h <= o
                 g == MatchFrom(s, ls, i, segs)
             IN  SubSeq(s, g, WordEnd(s, g) - 1)

\* the aliases of SUPPORTED_LANGUAGES
AliasNames == {a.alias : a \in LanguageAliases}

\* SUPPORTED_LANGUAGES.get(key): the language of an alias, "" for None
NormalizedLanguage(key) ==
    IF key \in AliasNames
    THEN (CHOOSE a \in LanguageAliases : a.alias = key).language
    ELSE ""

\* the group of the first pattern in the list that matches, <<>> if none does
RECURSIVE FirstPatternMatch(_, _)
FirstPatternMatch(content, patterns) ==
    IF patterns = <<>> THEN <<>>
    ELSE IF Search(content, Head(patterns)) /= <<>> THEN Search(content, Head(patterns))
    ELSE FirstPatternMatch(content, Tail(patterns))

\* _extract_language: the patterns first, then the first line as a bare
\* language name; <<>> stands for the ValueError
extract_language(content) ==
    LET by_pattern == FirstPatternMatch(content, LANGUAGE_PATTERNS)
        first_line == Strip(SplitLines(content)[1])
    IN  IF by_pattern /= <<>> THEN by_pattern
        ELSE IF Lower(first_line) \in AliasNames THEN first_line
        ELSE <<>>

\* the lines _extract_problem keeps: the first line that contains the
\* language is dropped, and every header line
RECURSIVE KeptLines(_, _, _)
KeptLines(lines, language, language_found) ==
    IF lines = <<>> THEN <<>>
    ELSE IF ~language_found /\ Contains(Lower(Head(lines)), Lower(language))
         THEN KeptLines(Tail(lines), language, TRUE)
    ELSE IF Lower(Strip(Head(lines))) \in HeaderLines
         THEN KeptLines(Tail(lines), language, language_found)
    ELSE <<Head(lines)>> \o KeptLines(Tail(lines), language, language_found)

\* _extract_problem: the problem text, <<>> where the ValueError is raised
extract_problem(content, language) ==
    Strip(JoinNL(KeptLines(SplitLines(content), language, FALSE)))

\* what parse_file raises
ParseError(text) ==
    [set |-> TRUE, ok |-> FALSE, error |-> text, problem |-> <<>>, language |-> ""]

\* parse_file without the test of the normalized language
parse_file_Unchecked(exists, text) ==
    LET content  == Strip(text)
        language == extract_language(content)
        problem  == extract_problem(content, language)
    IN  IF ~exists THEN ParseError("Input file not found")
        ELSE IF content = <<>> THEN ParseError("Input file is empty")
        ELSE IF language = <<>> THEN ParseError("Could not detect programming language")
        ELSE IF problem = <<>> THEN ParseError("Problem description is empty")
        ELSE [set |-> TRUE, ok |-> TRUE, error |-> "", problem |-> problem,
              language |-> NormalizedLanguage(Lower(language))]

\* parse_file
parse_file(exists, text) ==
    LET content  == Strip(text)
        language == extract_language(content)
        problem  == extract_problem(content, language)
    IN  IF ~exists THEN ParseError("Input file not found")
        ELSE IF content = <<>> THEN ParseError("Input file is empty")
        ELSE IF language = <<>> THEN ParseError("Could not detect programming language")
        ELSE IF problem = <<>> THEN ParseError("Problem description is empty")
        ELSE IF NormalizedLanguage(Lower(language)) = ""
             THEN ParseError("Unsupported language")
        ELSE [set |-> TRUE, ok |-> TRUE, error |-> "", problem |-> problem,
              language |-> NormalizedLanguage(Lower(language))]

ParseInit ==
    /\ SessionIdle
    /\ EngineIdle
    /\ ValidationIdle
    /\ PoolIdle
    /\ BatchIdle
    /\ JobIdle
    /\ r_pc = "call"
    /\ r_exists \in BOOLEAN
    /\ r_content \in FileContents
    /\ r_result = NoParse

\* parse_file, lines 67-101
ParseFile ==
    /\ r_pc = "call"
    /\ r_result' = parse_file(r_exists, r_content)
    /\ r_pc' = "returned"
    /\ UNCHANGED <<r_exists, r_content>>
    /\ UNCHANGED beside_parse

ParseNext == ParseFile

ParseSpec == ParseInit /\ [][ParseNext]_vars

(***************************************************************************)
(* The job store: submit_assignment, process_assignment_job and            *)
(* download_docx (app.py).  j_rows is what the database holds after the    *)
(* last commit, which is what every other request reads; the changes a     *)
(* background task makes to its Job object reach j_rows with db.commit().  *)
(* The database is taken to accept every commit; what follows the commit   *)
(* inside the try block (the reload of the expired user for user.username, *)
(* the prints) can raise like any other statement of the block.            *)
(***************************************************************************)
\* what run_batch_job returns: the path of the document it wrote
ResultFile == "data/output/Assignment.docx"

\* download_docx: the query by job id and owner, the test, the response
download_docx(user, row) ==
    LET job == IF row.exists /\ row.user_id = user THEN row ELSE NoRow
    IN  IF ~job.exists \/ job.status /= "done" \/ job.output_file_path = ""
        THEN [served |-> FALSE, file |-> ""]
        ELSE [served |-> TRUE, file |-> job.output_file_path]

JobInit ==
    /\ SessionIdle
    /\ EngineIdle
    /\ ValidationIdle
    /\ PoolIdle
    /\ BatchIdle
    /\ ParseIdle
    /\ JobIdle

\* submit_assignment, lines 276-299: the row is committed as queued and the
\* background task is scheduled
SubmitAssignment(user, j) ==
    /\ ~j_rows[j].exists
    /\ j_pc[j] = "none"
    /\ j_rows' = [j_rows EXCEPT ![j] = [exists |-> TRUE, user_id |-> user,
                                         status |-> "queued", output_file_path |-> ""]]
    /\ j_pc' = [j_pc EXCEPT ![j] = "scheduled"]
    /\ UNCHANGED <<j_obj, j_download>>
    /\ UNCHANGED beside_jobs

\* process_assignment_job, lines 87-92: the job is loaded, marked and committed
TaskStart(j) ==
    /\ j_pc[j] = "scheduled"
    /\ j_obj' = [j_obj EXCEPT ![j] = [j_rows[j] EXCEPT !.status = "processing"]]
    /\ j_rows' = [j_rows EXCEPT ![j] = j_obj'[j]]
    /\ j_pc' = [j_pc EXCEPT ![j] = "run"]
    /\ UNCHANGED j_download
    /\ UNCHANGED beside_jobs

\* lines 94-109: run_batch_job returns the document and the object is marked
\* done, or something in between raises
TaskRun(j) ==
    /\ j_pc[j] = "run"
    /\ \/ /\ j_obj' = [j_obj EXCEPT ![j] = [@ EXCEPT !.status = "done",
                                                      !.output_file_path = ResultFile]]
          /\ j_pc' = [j_pc EXCEPT ![j] = "stats"]
       \/ /\ j_pc' = [j_pc EXCEPT ![j] = "failed"]
          /\ UNCHANGED j_obj
    /\ UNCHANGED <<j_rows, j_download>>
    /\ UNCHANGED beside_jobs

\* lines 112-114: the user's counter is raised and everything is committed,
\* or the user is not found and user.total_jobs raises before the commit
TaskCommit(j) ==
    /\ j_pc[j] = "stats"
    /\ \/ /\ j_rows' = [j_rows EXCEPT ![j] = j_obj[j]]
          /\ j_pc' = [j_pc EXCEPT ![j] = "notify"]
       \/ /\ j_pc' = [j_pc EXCEPT ![j] = "failed"]
          /\ UNCHANGED j_rows
    /\ UNCHANGED <<j_obj, j_download>>
    /\ UNCHANGED beside_jobs

\* lines 116-126, after the commit and still inside the try block: the
\* questions are counted and the notification is printed, or a statement
\* raises and control goes to the handler
TaskNotify(j) ==
    /\ j_pc[j] = "notify"
    /\ \/ j_pc' = [j_pc EXCEPT ![j] = "closed"]
       \/ j_pc' = [j_pc EXCEPT ![j] = "failed"]
    /\ UNCHANGED <<j_rows, j_obj, j_download>>
    /\ UNCHANGED beside_jobs

\* lines 129-135: the handler marks the object and commits it
TaskFail(j) ==
    /\ j_pc[j] = "failed"
    /\ j_obj' = [j_obj EXCEPT ![j] = [@ EXCEPT !.status = "error"]]
    /\ j_rows' = [j_rows EXCEPT ![j] = j_obj'[j]]
    /\ j_pc' = [j_pc EXCEPT ![j] = "closed"]
    /\ UNCHANGED j_download
    /\ UNCHANGED beside_jobs

\* download_docx, lines 334-350
DownloadDocx(user, j) ==
    /\ j_download' = [asked |-> TRUE, user |-> user, job |-> j,
                      served |-> download_docx(user, j_rows[j]).served,
                      file |-> download_docx(user, j_rows[j]).file]
    /\ UNCHANGED <<j_rows, j_obj, j_pc>>
    /\ UNCHANGED beside_jobs

JobNext ==
    \/ \E user \in Users, j \in JobIds : SubmitAssignment(user, j)
    \/ \E j \in JobIds : TaskStart(j)
    \/ \E j \in JobIds : TaskRun(j)
    \/ \E j \in JobIds : TaskCommit(j)
    \/ \E j \in JobIds : TaskNotify(j)
    \/ \E j \in JobIds : TaskFail(j)
    \/ \E user \in Users, j \in JobIds : DownloadDocx(user, j)

JobSpec == JobInit /\ [][JobNext]_vars

(***************************************************************************)
(* Vocabulary of the properties.                                           *)
(***************************************************************************)
\* the superstep just taken ran node n alone and its writes were stored
Ran(n) == active = {n} /\ steps' = steps + 1 /\ session_error' = "none"

\* a synthesis call was made in the step
SynthesisCalled == synth_calls' = synth_calls + 1

\* the text contains the letters P, A, S, S in a row, each in either case
PassInSomeCase(s) ==
    \E i \in 1..(Len(s) - 3) :
        /\ s[i] \in {"P", "p"}
        /\ s[i + 1] \in {"A", "a"}
        /\ s[i + 2] \in {"S", "s"}
        /\ s[i + 3] \in {"S", "s"}

\* every validation of the session so far returned a failing verdict
AllValidationsFailed ==
    \A i \in 1..Len(state.feedback_history) :
        state.feedback_history[i] /= "No issues detected."

\* the session stopped at the ceiling with a failing verdict
Exhausted ==
    /\ Terminated
    /\ ~state.validation_passed
    /\ state.iteration_count >= state.max_iterations

(***************************************************************************)
(* C1.  When a session terminates, its iteration count is at most the      *)
(* iteration ceiling max_iterations.                                       *)
(***************************************************************************)
C1_FinalCountWithinCeiling ==
    Terminated => state.iteration_count <= state.max_iterations

(***************************************************************************)
(* C2.  Every session eventually reaches a terminal state; in particular   *)
(* a session in which every synthesis call raises and every critique       *)
(* returns a text without PASS still terminates.  Stated for that case:    *)
(* eventually the session has terminated, or a synthesis has succeeded, or *)
(* a critique has let a candidate through, or the critique has raised.     *)
(***************************************************************************)
C2_FailingSynthesisTerminates ==
    <>(\/ Terminated
       \/ state.llm_calls_made > 0
       \/ exec_calls > 0
       \/ session_error = "ReviewError")

(***************************************************************************)
(* C3.  The number of synthesis calls made in a session never exceeds the  *)
(* iteration ceiling.                                                      *)
(***************************************************************************)
C3_SynthesisCallsWithinCeiling ==
    synth_calls <= state.max_iterations

(***************************************************************************)
(* C4.  Every synthesis call increments the iteration count by exactly     *)
(* one, also when the call raises.                                         *)
(***************************************************************************)
C4_EverySynthesisCounts ==
    [][SynthesisCalled => state'.iteration_count = state.iteration_count + 1]_vars

(***************************************************************************)
(* C5.  A terminated session returns non-empty code whenever one of its    *)
(* synthesis calls produced non-empty code.                                *)
(***************************************************************************)
C5_BestCandidateReturned ==
    (Terminated /\ best_seen) => state.generated_code /= ""

(***************************************************************************)
(* C6.  A session ends as Complete (status completed, final success) only  *)
(* if its last validation verdict passed.                                  *)
(***************************************************************************)
C6_CompleteOnlyIfPassed ==
    (Terminated /\ (state.status = "completed" \/ state.final_success))
        => state.validation_passed

(***************************************************************************)
(* C7.  After every Validating step exactly one successor is scheduled:    *)
(* the document step if the verdict passed or the iteration count has      *)
(* reached the ceiling, and otherwise Generating alone.                    *)
(***************************************************************************)
C7_OneSuccessorAfterValidate ==
    [][Ran("validate_code") =>
        active' = IF \/ state'.validation_passed
                     \/ state'.iteration_count >= state'.max_iterations
                  THEN {"generate_document"}
                  ELSE {"generate_code"}]_vars

(***************************************************************************)
(* C8 as claimed.  After a critique the session enters Executing exactly   *)
(* when the critique text contains PASS in some letter case.               *)
(***************************************************************************)
C8_ExecuteOnlyOnPass ==
    [][Ran("review_code") =>
        (active' = {"execute_code"} <=> PassInSomeCase(state'.review_feedback))]_vars

(***************************************************************************)
(* C8 as amended.  After a critique the session enters Executing exactly   *)
(* when the upper-cased critique text contains PASS or the iteration count *)
(* has reached the ceiling; otherwise it goes back to Generating, and the  *)
(* candidate is not executed in that step.                                 *)
(***************************************************************************)
C8_ExecuteOnPassOrCeiling ==
    [][Ran("review_code") =>
        LET signal == Contains(Upper(state'.review_feedback), <<"P", "A", "S", "S">>)
            spent  == state'.iteration_count >= state'.max_iterations
        IN  /\ (signal \/ spent) => active' = {"execute_code"}
            /\ ~(signal \/ spent) => active' = {"generate_code"}
            /\ exec_calls' = exec_calls
            /\ state'.generated_code = state.generated_code]_vars

\* a lower-case "pass" let a candidate into Executing below the ceiling
C8_Witness ==
    /\ active = {"execute_code"}
    /\ state.review_feedback = <<"p", "a", "s", "s">>
    /\ state.iteration_count < state.max_iterations
    /\ state.generated_code /= ""

(***************************************************************************)
(* C9.  A session in which every critique passes and every validation      *)
(* fails, and which stops at the ceiling N with a failing verdict, has     *)
(* made N synthesis calls, N executions and N validations, and ends with   *)
(* iteration count N and a feedback history of length N.                   *)
(***************************************************************************)
C9_ExhaustedAfterCeilingRounds ==
    (Exhausted /\ ~critique_rejected /\ AllValidationsFailed) =>
        /\ synth_calls = state.max_iterations
        /\ exec_calls = state.max_iterations
        /\ Len(state.feedback_history) = state.max_iterations
        /\ state.iteration_count = state.max_iterations

(***************************************************************************)
(* C10.  A session whose synthesis succeeds, whose critique passes and     *)
(* whose first validation passes terminates after one synthesis call, one  *)
(* execution and one validation, with iteration count 1.                   *)
(***************************************************************************)
C10_FirstTrySucceeds ==
    ( /\ Terminated
      /\ state.llm_calls_made = synth_calls
      /\ ~critique_rejected
      /\ Len(state.feedback_history) >= 1
      /\ state.feedback_history[1] = "No issues detected." ) =>
        /\ synth_calls = 1
        /\ exec_calls = 1
        /\ Len(state.feedback_history) = 1
        /\ state.iteration_count = 1

(***************************************************************************)
(* C11.  A critique step changes nothing in the session state except the   *)
(* stored review feedback; in particular the iteration count is the same   *)
(* before and after it, whether the critique passes or routes back.        *)
(***************************************************************************)
C11_ReviewChangesOnlyFeedback ==
    [][Ran("review_code") =>
        \A k \in DOMAIN state \ {"review_feedback"} : state'[k] = state[k]]_vars

\* a critique has sent a counted candidate back to Generating
C11_Witness ==
    /\ stage = "reviewed"
    /\ active = {"generate_code"}
    /\ state.iteration_count = 1
    /\ state.review_feedback = <<"f", "i", "x">>

(***************************************************************************)
(* C12.  The steps for a candidate come in the order generate, review,     *)
(* execute, validate, decide: a step of the session reviews only a         *)
(* candidate just generated, executes only a reviewed one, validates only  *)
(* an executed one, and the document step runs only on a validated one.    *)
(***************************************************************************)
C12_StepsInOrder ==
    [][(steps' = steps + 1) =>
        /\ "review_code" \in active =>
              stage = "generated" /\ staged_code = state.generated_code
        /\ "execute_code" \in active =>
              stage = "reviewed" /\ staged_code = state.generated_code
        /\ "validate_code" \in active =>
              stage = "executed" /\ staged_code = state.generated_code
        /\ "generate_document" \in active =>
              stage = "validated" /\ staged_code = state.generated_code]_vars

\* a session ended after a second candidate went through all the steps
C12_Witness ==
    /\ Terminated
    /\ stage = "validated"
    /\ synth_calls = 2
    /\ exec_calls = 1
    /\ state.generated_code = "codeB"

(***************************************************************************)
(* C13.  The prompt of a synthesis call that follows a failed validation   *)
(* carries the joined diagnostics of the most recent verdict, and the      *)
(* prompt of the first synthesis call of a session carries no feedback.    *)
(***************************************************************************)
C13_PromptCarriesLatestDigest ==
    [][SynthesisCalled =>
        /\ synth_calls = 0 =>
              prompt'.feedback = "" /\ prompt'.review = <<>>
        /\ (state.feedback_history /= <<>> /\ ~state.validation_passed) =>
              prompt'.feedback = JoinLines(state.validation_errors)]_vars

\* a synthesis call was made with the digest of the failed validation
C13_Witness ==
    /\ stage = "generated"
    /\ synth_calls = 2
    /\ state.validation_errors = <<"pylint: W0101", "bandit: issue">>
    /\ prompt.feedback = "pylint: W0101\nbandit: issue"

(***************************************************************************)
(* C14.  A critique call that raises is not fatal to the session: no       *)
(* exception of the critique escapes the session.                          *)
(***************************************************************************)
C14_CritiqueFailureNotFatal ==
    session_error /= "ReviewError"

(***************************************************************************)
(* C15.  A failure inside the Executing step (the engine cannot be         *)
(* constructed, or the call raises) becomes a failed execution result:     *)
(* execution_success false, empty output, error text set; nothing escapes  *)
(* and the session goes on to Validating.                                  *)
(***************************************************************************)
C15_ExecutionFailureAbsorbed ==
    [][(active = {"execute_code"} /\ steps' = steps + 1 /\ last_exec'.raised) =>
        /\ state'.execution_success = FALSE
        /\ state'.execution_output = ""
        /\ state'.execution_error /= ""
        /\ session_error' = "none"
        /\ active' = {"validate_code"}]_vars

\* the engine call raised and the session is about to validate
C15_Witness ==
    /\ stage = "executed"
    /\ last_exec.raised
    /\ last_exec.at = "execute"
    /\ active = {"validate_code"}

(***************************************************************************)
(* C16.  When the engine cannot be constructed because the sandbox runtime *)
(* is unreachable, the session stops with an error that reaches the        *)
(* caller, so that the batch aborts.                                       *)
(***************************************************************************)
C16_UnreachableSandboxAborts ==
    (last_exec.at = "init") => (active = {} /\ session_error /= "none")

C18_SuccessIffExitZero ==
    ex_result.set => (ex_result.success <=> ex_result.exit_code = 0)

\* a container that ended with exit code 1 was reported
C18_Witness ==
    /\ ex_pc = "returned"
    /\ ex_path = "completed"
    /\ ex_result.exit_code = 1
    /\ ~ex_result.success

(***************************************************************************)
(* C19.  When execute returns, on every exit path, the container it        *)
(* launched has been removed and the scratch file it wrote has been        *)
(* deleted: no container or scratch file of a finished call remains.       *)
(***************************************************************************)
C19_NothingLeftBehind ==
    Returned => (ex_container \in {"none", "removed"} /\ ex_file \in {"none", "deleted"})

(***************************************************************************)
(* C20.  A run that exceeds its timeout returns success false, exit code   *)
(* -1, empty output and an error text that identifies the timeout, and the *)
(* still-running container has been removed when execute returns.          *)
(***************************************************************************)
C20_TimeoutReclaimed ==
    (Returned /\ ex_path = "timeout") =>
        /\ ~ex_result.success
        /\ ex_result.exit_code = -1
        /\ ex_result.output = ""
        /\ ex_result.error = "Execution timeout after 30 seconds"
        /\ ex_container = "removed"

(***************************************************************************)
(* C21.  For every verdict of validate, whatever the language, the tool    *)
(* outputs and the exceptions, validation_passed is true exactly when the  *)
(* diagnostic list validation_errors is empty.                             *)
(***************************************************************************)
C21_PassedIffNoDiagnostics ==
    v_verdict.set => (v_verdict.passed <=> v_verdict.errors = <<>>)

\* a validator whose tool raised ended in a failing verdict of one diagnostic
C21_Witness ==
    /\ v_pc = "done"
    /\ v_lang = "cpp"
    /\ v_threw /= {}
    /\ ~v_verdict.passed
    /\ v_verdict.errors = <<EngineError>>

(***************************************************************************)
(* C22.  When one tool invocation of a battery of more than one tool       *)
(* throws, the remaining tools still run and their outputs are judged: the *)
(* failing tool contributes one diagnostic and the verdict is the judgment *)
(* of all the outputs.                                                     *)
(***************************************************************************)
C22_OtherToolsStillJudged ==
    (v_pc = "done" /\ v_threw /= {} /\ Len(Battery(v_lang)) > 1) =>
        /\ v_ran = {Battery(v_lang)[i] : i \in 1..Len(Battery(v_lang))}
        /\ \A tool \in v_ran : \E i \in 1..Len(v_details) : v_details[i].tool = tool
        /\ \A tool \in v_threw : OutputOf(v_details, tool) = ErrorRunning
        /\ v_verdict.errors = judge(v_lang, v_details)

(***************************************************************************)
(* C27.  run_tool returns the complete output of its tool: the logs are    *)
(* read only after the tool process has exited and before the container is *)
(* removed.                                                                *)
(***************************************************************************)
C27_LogsReadAfterExit ==
    v_read.set => (v_read.status = "exited" /\ v_read.got = v_read.full)

(***************************************************************************)
(* C29.  A Python candidate whose four tools all report clean, bandit with *)
(* the text is_code_secure accepts, receives a passing verdict without a   *)
(* bandit diagnostic.                                                      *)
(***************************************************************************)
C29_CleanPythonPasses ==
    (/\ v_pc = "done"
     /\ v_lang = "python"
     /\ \A i \in 1..Len(Battery("python")) :
           OutputOf(v_details, Battery("python")[i]) = CleanReport(Battery("python")[i])
     /\ is_code_secure(v_details)) =>
        /\ v_verdict.passed
        /\ v_verdict.errors = <<>>

(***************************************************************************)
(* C24.  The number of containers that are live at the same time is at     *)
(* most a fixed admission limit, however many jobs run concurrently and    *)
(* however many tools a battery launches.                                  *)
(***************************************************************************)
C24_LiveContainersBounded ==
    Cardinality(p_pool) <= AdmissionLimit

(***************************************************************************)
(* C26.  Every execution container has the network disabled, a memory and  *)
(* a CPU ceiling and the scratch directory mounted read-only; every tool   *)
(* container has the same network, memory and CPU restrictions and mounts  *)
(* the scratch directory read-write.                                       *)
(***************************************************************************)
C26_ContainersRestricted ==
    \A c \in p_pool :
       /\ c.config.network_disabled
       /\ c.config.mem_limit /= ""
       /\ c.config.cpu_quota > 0 /\ c.config.cpu_period > 0
       /\ c.kind = "execution" => c.config.mode = "ro"
       /\ c.kind = "tool" =>
             LET e == executor_container_config(p_job[c.job].lang, p_cpu)
             IN  /\ c.config.mode = "rw"
                 /\ c.config.network_disabled = e.network_disabled
                 /\ c.config.mem_limit = e.mem_limit
                 /\ c.config.cpu_quota = e.cpu_quota
                 /\ c.config.cpu_period = e.cpu_period

\* an execution container and a tool container are live together
C26_Witness ==
    /\ \E c \in p_pool : c.kind = "execution" /\ c.config.mode = "ro"
    /\ \E c \in p_pool : c.kind = "tool" /\ c.config.mode = "rw"

(***************************************************************************)
(* C23.  For an input of N questions whose sessions all return, the batch  *)
(* driver runs one session per question and hands the renderer N entries   *)
(* in question order, each with the number and text of its question and    *)
(* the final code and output of that question's own session.               *)
(***************************************************************************)
C23_OneEntryPerQuestion ==
    (b_pc \in {"returned", "raised"} /\ b_index > Len(b_questions)) =>
        /\ Len(b_finals) = Len(b_questions)
        /\ Len(b_handed) = Len(b_questions)
        /\ \A i \in 1..Len(b_questions) :
              /\ b_handed[i].number = b_questions[i].number
              /\ b_handed[i].text = b_questions[i].question
              /\ b_handed[i].code = b_finals[i].generated_code
              /\ b_handed[i].output = b_finals[i].execution_output

\* two questions with different texts, codes and outputs were handed over
C23_Witness ==
    /\ b_pc = "returned"
    /\ Len(b_handed) = 2
    /\ b_handed[1].number = 1 /\ b_handed[2].number = 2
    /\ b_handed[1].text /= b_handed[2].text
    /\ b_handed[1].code /= b_handed[2].code
    /\ b_handed[1].output /= b_handed[2].output

\* C25: parse_file raises and returns nothing when no language is detected,
\* when the problem text is empty once the language line and the header
\* lines are removed, or when the detected language is no supported alias;
\* every parse that returns gives a supported language and a non-empty
\* problem text.
C25_ParseFailsOrReturnsSupported ==
    r_pc = "returned" =>
        LET content  == Strip(r_content)
            language == extract_language(content)
        IN  /\ ( /\ r_exists
                 /\ content /= <<>>
                 /\ \/ language = <<>>
                    \/ extract_problem(content, language) = <<>>
                    \/ Lower(language) \notin AliasNames )
               => ( /\ ~r_result.ok
                    /\ r_result.error /= ""
                    /\ r_result.problem = <<>>
                    /\ r_result.language = "" )
            /\ r_result.ok =>
                   /\ r_result.language \in {a.language : a \in LanguageAliases}
                   /\ r_result.problem /= <<>>

\* a file with a problem text whose detected language is no alias was refused
C25_Witness ==
    /\ r_pc = "returned"
    /\ r_exists
    /\ extract_language(Strip(r_content)) /= <<>>
    /\ extract_problem(Strip(r_content), extract_language(Strip(r_content))) /= <<>>
    /\ r_result.error = "Unsupported language"

\* C28: the output a terminated session returns is the output of executing
\* the code it returns.  Every execution runs the candidate of the last
\* synthesis step and stores what the engine answered for it (the empty
\* output when the engine raised), and the step that ends the session comes
\* after the validation of that candidate, with no synthesis step in between,
\* and leaves code and output as the execution left them.
C28_OutputBelongsToCode ==
    [][ /\ (active = {"execute_code"} /\ steps' = steps + 1) =>
               /\ state.generated_code = staged_code
               /\ state'.generated_code = staged_code
               /\ state'.execution_output =
                      (IF last_exec'.raised THEN "" ELSE last_exec'.output)
        /\ (active /= {} /\ active' = {} /\ session_error' = "none") =>
               /\ stage = "validated"
               /\ stage' = "validated"
               /\ last_exec /= NoExec
               /\ state'.generated_code = staged_code
               /\ state'.execution_output =
                      (IF last_exec.raised THEN "" ELSE last_exec.output) ]_vars

\* a session ended after a second candidate was synthesized and executed,
\* with the output of that execution
C28_Witness ==
    /\ Terminated
    /\ synth_calls >= 2
    /\ exec_calls >= 2
    /\ state.generated_code /= ""
    /\ state.execution_output /= ""
    /\ state.execution_output = last_exec.output

\* C30: a job's status only moves queued -> processing -> done or
\* queued -> processing -> error, done and error being final; a job is done
\* only with its output file path set; and a download is served only for a
\* job of the requesting user that is done and has an output file path.
C30_JobLifecycle ==
    /\ [](\A j \in JobIds :
            /\ j_rows[j].exists => j_rows[j].status \in {"queued", "processing", "done", "error"}
            /\ j_rows[j].status = "done" => j_rows[j].output_file_path /= "")
    /\ [][\A j \in JobIds :
            /\ ~j_rows[j].exists /\ j_rows'[j].exists => j_rows'[j].status = "queued"
            /\ j_rows[j].exists =>
                  /\ j_rows'[j].exists
                  /\ j_rows'[j].user_id = j_rows[j].user_id
                  /\ \/ j_rows'[j].status = j_rows[j].status
                     \/ <<j_rows[j].status, j_rows'[j].status>> \in
                            {<<"queued", "processing">>, <<"processing", "done">>,
                             <<"processing", "error">>}]_vars
    /\ [][(j_download' /= j_download /\ j_download'.served) =>
            /\ j_rows[j_download'.job].exists
            /\ j_rows[j_download'.job].user_id = j_download'.user
            /\ j_rows[j_download'.job].status = "done"
            /\ j_rows[j_download'.job].output_file_path /= ""
            /\ j_download'.file = j_rows[j_download'.job].output_file_path]_vars

====
